---- MODULE Spec2Model ----
(***************************************************************************)
(* A model of src/src/Semaphore.ts: a counting semaphore over one Int32    *)
(* cell of a SharedArrayBuffer.  Every thread (the main thread, a worker)  *)
(* wraps the cell with its own Semaphore instance and calls acquire,       *)
(* acquireAsync and release on it.  Each atomic access of the cell         *)
(* (Atomics.load, Atomics.wait, Atomics.waitAsync, Atomics.compareExchange,*)
(* Atomics.notify) is one step, and so is the update of the instance's     *)
(* _acquiredPermits that follows a successful compareExchange.             *)
(***************************************************************************)
EXTENDS Integers, FiniteSets

\* ------------------------------------------------------------------ bounds
NThreads == 2        \* threads, each with its own Semaphore instance
NSlots == 2          \* calls one thread can have in progress at once
Capacity == 2        \* the argument of fromCapacity: the cell's first value
MaxNum == 2          \* largest argument of a call
NegNum == 1          \* the smallest argument of a call is 0 - NegNum
MaxCalls == 3        \* calls started in one behaviour
MaxLength == 2       \* largest length of an Int32Array given to the constructor

\* ------------------------------------------------------------------ constants
MutexCapacity == 1   \* Semaphore.createWithCapacity(1) of the Quickstart

\* ------------------------------------------------------------------ state

Threads == 1..NThreads
Slots == 1..NSlots
AnyNum == (0 - NegNum)..MaxNum
PosNum == 1..MaxNum

VARIABLES
    cell,               \* this._int32Array[0], shared by all instances
    acquiredPermits,    \* this._acquiredPermits of each thread's instance
    call,               \* the calls in progress on each thread: op, num, available, pc
    running,            \* the slot whose call runs on the thread, 0: none
    result,             \* how the latest finished call of each thread ended
    budget              \* calls the threads may still start

vars == <<cell, acquiredPermits, call, running, result, budget>>

\* A call slot with no call in progress.
NoCall == [op |-> "none", num |-> 0, available |-> 0, pc |-> "idle"]

\* A call that has just been entered.
Enter(op, num) == [op |-> op, num |-> num, available |-> 0, pc |-> "load"]

\* The loop of a call goes round (continue, or a failed compareExchange), or the
\* call waits: the const available of this round is gone.
Goto(c, pc) == [c EXCEPT !.pc = pc, !.available = 0]

\* Semaphore.fromCapacity(permits), and new Semaphore(int32Array) over its
\* buffer in every thread; the threads go on to make up to calls calls.
Start(permits, calls) ==
    /\ cell = permits
    /\ acquiredPermits = [t \in Threads |-> 0]
    /\ call = [t \in Threads |-> [s \in Slots |-> NoCall]]
    /\ running = [t \in Threads |-> 0]
    /\ result = [t \in Threads |-> "none"]
    /\ budget = calls

Init == Start(Capacity, MaxCalls)

\* ------------------------------------------------------------------ helpers
\* The slot a new call of thread t takes: the first one that is not in use.
FreeSlot(t) == CHOOSE s \in Slots : call[t][s].pc = "idle" /\ \A r \in Slots : call[t][r].pc = "idle" => s <= r

\* Thread t can start a call: nothing runs on it and a slot is free.
CanCall(t) ==
    /\ budget > 0
    /\ running[t] = 0
    /\ \E s \in Slots : call[t][s].pc = "idle"

Set(t, s, c) == [call EXCEPT ![t][s] = c]

\* The call (t, s) is the one executing on thread t with the given op at pc.
At(t, s, op, pc) == running[t] = s /\ call[t][s].op = op /\ call[t][s].pc = pc

\* Thread t's call returns (or its promise resolves), or throws.
Ends(t, how) == result' = [result EXCEPT ![t] = how]

\* Atomics.notify(this._int32Array, 0): every agent waiting on the cell is woken.
\* A thread blocked in Atomics.wait goes on; the promise of Atomics.waitAsync
\* is resolved and its continuation is queued on its thread.
Woken(c) ==
    IF c.pc = "blocked" THEN Goto(c, "load")
    ELSE IF c.pc = "suspended" THEN Goto(c, "ready")
    ELSE c

\* ------------------------------------------------------------------ acquire
\* acquire(num): the check of num, then the loop is entered.
acquire(t, num) ==
    /\ CanCall(t)
    /\ budget' = budget - 1
    /\ IF num <= 0
       THEN /\ Ends(t, "InvalidArgument")
            /\ UNCHANGED <<call, running>>
       ELSE /\ call' = Set(t, FreeSlot(t), Enter("acquire", num))
            /\ running' = [running EXCEPT ![t] = FreeSlot(t)]
            /\ UNCHANGED result
    /\ UNCHANGED <<cell, acquiredPermits>>

\* The test of a binary semaphore: if (available <= 0).
acquire_load_zero(t, s) ==
    /\ At(t, s, "acquire", "load")
    /\ call' = Set(t, s, [call[t][s] EXCEPT !.available = cell,
                              !.pc = IF cell <= 0 THEN "wait" ELSE "cas"])
    /\ UNCHANGED <<cell, acquiredPermits, running, result, budget>>

\* const available = Atomics.load(...); if (available < num)
acquire_load(t, s) ==
    /\ At(t, s, "acquire", "load")
    /\ call' = Set(t, s, [call[t][s] EXCEPT !.available = cell,
                              !.pc = IF cell < call[t][s].num THEN "wait" ELSE "cas"])
    /\ UNCHANGED <<cell, acquiredPermits, running, result, budget>>

\* A wait that does not compare the cell with available before it blocks.
acquire_wait_blind(t, s) ==
    /\ At(t, s, "acquire", "wait")
    /\ call' = Set(t, s, Goto(call[t][s], "blocked"))
    /\ UNCHANGED <<cell, acquiredPermits, running, result, budget>>

\* Atomics.wait(this._int32Array, 0, available); continue: the thread blocks
\* only while the cell still holds available.
acquire_wait(t, s) ==
    /\ At(t, s, "acquire", "wait")
    /\ call' = Set(t, s, Goto(call[t][s],
                              IF cell = call[t][s].available THEN "blocked" ELSE "load"))
    /\ UNCHANGED <<cell, acquiredPermits, running, result, budget>>

\* A store in place of the compareExchange: Atomics.store(..., available - num).
acquire_cas_store(t, s) ==
    /\ At(t, s, "acquire", "cas")
    /\ cell' = call[t][s].available - call[t][s].num
    /\ call' = Set(t, s, Goto(call[t][s], "upd"))
    /\ UNCHANGED <<acquiredPermits, running, result, budget>>

\* Atomics.compareExchange(this._int32Array, 0, available, available - num) === available
acquire_cas(t, s) ==
    /\ At(t, s, "acquire", "cas")
    /\ IF cell = call[t][s].available
       THEN /\ cell' = call[t][s].available - call[t][s].num
            /\ call' = Set(t, s, Goto(call[t][s], "upd"))
       ELSE /\ call' = Set(t, s, Goto(call[t][s], "load"))
            /\ UNCHANGED cell
    /\ UNCHANGED <<acquiredPermits, running, result, budget>>

\* this._acquiredPermits += num; break
acquire_upd(t, s) ==
    /\ At(t, s, "acquire", "upd")
    /\ acquiredPermits' = [acquiredPermits EXCEPT ![t] = @ + call[t][s].num]
    /\ call' = Set(t, s, NoCall)
    /\ running' = [running EXCEPT ![t] = 0]
    /\ Ends(t, "returned")
    /\ UNCHANGED <<cell, budget>>

\* ------------------------------------------------------------------ release
\* release with its check against the permits out on the cell, whoever holds
\* them, in place of this._acquiredPermits.
release_of_cell(t, num) ==
    /\ CanCall(t)
    /\ budget' = budget - 1
    /\ IF num > Capacity - cell
       THEN /\ Ends(t, "OverRelease")
            /\ UNCHANGED <<call, running>>
       ELSE /\ call' = Set(t, FreeSlot(t), Enter("release", num))
            /\ running' = [running EXCEPT ![t] = FreeSlot(t)]
            /\ UNCHANGED result
    /\ UNCHANGED <<cell, acquiredPermits>>

\* release without its check against this._acquiredPermits.
release_unchecked(t, num) ==
    /\ CanCall(t)
    /\ budget' = budget - 1
    /\ call' = Set(t, FreeSlot(t), Enter("release", num))
    /\ running' = [running EXCEPT ![t] = FreeSlot(t)]
    /\ UNCHANGED <<cell, acquiredPermits, result>>

\* release(num): the check against this._acquiredPermits, then the loop is entered.
release(t, num) ==
    /\ CanCall(t)
    /\ budget' = budget - 1
    /\ IF num > acquiredPermits[t]
       THEN /\ Ends(t, "OverRelease")
            /\ UNCHANGED <<call, running>>
       ELSE /\ call' = Set(t, FreeSlot(t), Enter("release", num))
            /\ running' = [running EXCEPT ![t] = FreeSlot(t)]
            /\ UNCHANGED result
    /\ UNCHANGED <<cell, acquiredPermits>>

\* A retry that does not read the cell again and swaps against the value it has.
release_load_stale(t, s) ==
    /\ At(t, s, "release", "load")
    /\ call' = Set(t, s, [call[t][s] EXCEPT !.pc = "cas"])
    /\ UNCHANGED <<cell, acquiredPermits, running, result, budget>>

\* const available = Atomics.load(...)
release_load(t, s) ==
    /\ At(t, s, "release", "load")
    /\ call' = Set(t, s, [call[t][s] EXCEPT !.available = cell, !.pc = "cas"])
    /\ UNCHANGED <<cell, acquiredPermits, running, result, budget>>

\* A store in place of the compareExchange: Atomics.store(..., available + num).
release_cas_store(t, s) ==
    /\ At(t, s, "release", "cas")
    /\ cell' = call[t][s].available + call[t][s].num
    /\ call' = Set(t, s, Goto(call[t][s], "upd"))
    /\ UNCHANGED <<acquiredPermits, running, result, budget>>

\* Atomics.compareExchange(this._int32Array, 0, available, available + num) === available
release_cas(t, s) ==
    /\ At(t, s, "release", "cas")
    /\ IF cell = call[t][s].available
       THEN /\ cell' = call[t][s].available + call[t][s].num
            /\ call' = Set(t, s, Goto(call[t][s], "upd"))
       ELSE /\ call' = Set(t, s, Goto(call[t][s], "load"))
            /\ UNCHANGED cell
    /\ UNCHANGED <<acquiredPermits, running, result, budget>>

\* One permit given back whatever num is: this._acquiredPermits--.
release_upd_one(t, s) ==
    /\ At(t, s, "release", "upd")
    /\ acquiredPermits' = [acquiredPermits EXCEPT ![t] = @ - 1]
    /\ call' = Set(t, s, Goto(call[t][s], "notify"))
    /\ UNCHANGED <<cell, running, result, budget>>

\* this._acquiredPermits -= num
release_upd(t, s) ==
    /\ At(t, s, "release", "upd")
    /\ acquiredPermits' = [acquiredPermits EXCEPT ![t] = @ - call[t][s].num]
    /\ call' = Set(t, s, Goto(call[t][s], "notify"))
    /\ UNCHANGED <<cell, running, result, budget>>

\* release without its Atomics.notify: nobody is woken.
release_notify_none(t, s) ==
    /\ At(t, s, "release", "notify")
    /\ call' = Set(t, s, NoCall)
    /\ running' = [running EXCEPT ![t] = 0]
    /\ Ends(t, "returned")
    /\ UNCHANGED <<cell, acquiredPermits, budget>>

\* One waiter woken, the first in the order of the threads and their calls:
\* Atomics.notify(this._int32Array, 0, 1).
release_notify_one(t, s) ==
    /\ At(t, s, "release", "notify")
    /\ LET waiting == {w \in Threads \X Slots : call[w[1]][w[2]].pc \in {"blocked", "suspended"}}
           first(u, r) == /\ <<u, r>> \in waiting
                          /\ \A w \in waiting : u < w[1] \/ (u = w[1] /\ r <= w[2])
       IN  call' = [u \in Threads |-> [r \in Slots |->
                       IF u = t /\ r = s THEN NoCall
                       ELSE IF first(u, r) THEN Woken(call[u][r]) ELSE call[u][r]]]
    /\ running' = [running EXCEPT ![t] = 0]
    /\ Ends(t, "returned")
    /\ UNCHANGED <<cell, acquiredPermits, budget>>

\* Atomics.notify(this._int32Array, 0); break
release_notify(t, s) ==
    /\ At(t, s, "release", "notify")
    /\ call' = [u \in Threads |-> [r \in Slots |->
                   IF u = t /\ r = s THEN NoCall ELSE Woken(call[u][r])]]
    /\ running' = [running EXCEPT ![t] = 0]
    /\ Ends(t, "returned")
    /\ UNCHANGED <<cell, acquiredPermits, budget>>

\* ------------------------------------------------------------------ acquireAsync
\* acquireAsync(num): the loop is entered at once, there is no check of num.
acquireAsync(t, num) ==
    /\ CanCall(t)
    /\ budget' = budget - 1
    /\ call' = Set(t, FreeSlot(t), Enter("acquireAsync", num))
    /\ running' = [running EXCEPT ![t] = FreeSlot(t)]
    /\ UNCHANGED <<cell, acquiredPermits, result>>

\* The test written for one permit: if (available < 1).
acquireAsync_load_one(t, s) ==
    /\ At(t, s, "acquireAsync", "load")
    /\ call' = Set(t, s, [call[t][s] EXCEPT !.available = cell,
                              !.pc = IF cell < 1 THEN "wait" ELSE "cas"])
    /\ UNCHANGED <<cell, acquiredPermits, running, result, budget>>

\* const available = Atomics.load(...); if (available < num)
acquireAsync_load(t, s) ==
    /\ At(t, s, "acquireAsync", "load")
    /\ call' = Set(t, s, [call[t][s] EXCEPT !.available = cell,
                              !.pc = IF cell < call[t][s].num THEN "wait" ELSE "cas"])
    /\ UNCHANGED <<cell, acquiredPermits, running, result, budget>>

\* An await that always parks the call until a notify, whatever the cell holds.
acquireAsync_wait_blind(t, s) ==
    /\ At(t, s, "acquireAsync", "wait")
    /\ call' = Set(t, s, Goto(call[t][s], "suspended"))
    /\ running' = [running EXCEPT ![t] = 0]
    /\ UNCHANGED <<cell, acquiredPermits, result, budget>>

\* await Atomics.waitAsync(...).value: the call leaves the thread.  When the cell
\* no longer holds available the value is the string "not-equal" and the
\* continuation is queued at once; otherwise the promise is pending until a notify.
acquireAsync_wait(t, s) ==
    /\ At(t, s, "acquireAsync", "wait")
    /\ call' = Set(t, s, Goto(call[t][s],
                              IF cell = call[t][s].available THEN "suspended" ELSE "ready"))
    /\ running' = [running EXCEPT ![t] = 0]
    /\ UNCHANGED <<cell, acquiredPermits, result, budget>>

\* One promise shared by the pending calls of an instance: the first
\* continuation to run goes on with the loop, the other queued ones resolve.
acquireAsync_resume_all(t, s) ==
    /\ running[t] = 0
    /\ call[t][s].op = "acquireAsync"
    /\ call[t][s].pc = "ready"
    /\ call' = [call EXCEPT ![t] = [r \in Slots |->
                   IF r = s THEN Goto(call[t][s], "load")
                   ELSE IF call[t][r].pc = "ready" THEN NoCall ELSE call[t][r]]]
    /\ running' = [running EXCEPT ![t] = s]
    /\ UNCHANGED <<cell, acquiredPermits, result, budget>>

\* continue: the continuation after the await runs once the thread is free.
acquireAsync_resume(t, s) ==
    /\ running[t] = 0
    /\ call[t][s].op = "acquireAsync"
    /\ call[t][s].pc = "ready"
    /\ call' = Set(t, s, Goto(call[t][s], "load"))
    /\ running' = [running EXCEPT ![t] = s]
    /\ UNCHANGED <<cell, acquiredPermits, result, budget>>

\* A store in place of the compareExchange: Atomics.store(..., available - num).
acquireAsync_cas_store(t, s) ==
    /\ At(t, s, "acquireAsync", "cas")
    /\ cell' = call[t][s].available - call[t][s].num
    /\ call' = Set(t, s, Goto(call[t][s], "upd"))
    /\ UNCHANGED <<acquiredPermits, running, result, budget>>

\* Atomics.compareExchange(this._int32Array, 0, available, available - num) === available
acquireAsync_cas(t, s) ==
    /\ At(t, s, "acquireAsync", "cas")
    /\ IF cell = call[t][s].available
       THEN /\ cell' = call[t][s].available - call[t][s].num
            /\ call' = Set(t, s, Goto(call[t][s], "upd"))
       ELSE /\ call' = Set(t, s, Goto(call[t][s], "load"))
            /\ UNCHANGED cell
    /\ UNCHANGED <<acquiredPermits, running, result, budget>>

\* The promise resolves without the update of this._acquiredPermits.
acquireAsync_upd_skip(t, s) ==
    /\ At(t, s, "acquireAsync", "upd")
    /\ call' = Set(t, s, NoCall)
    /\ running' = [running EXCEPT ![t] = 0]
    /\ Ends(t, "returned")
    /\ UNCHANGED <<cell, acquiredPermits, budget>>

\* this._acquiredPermits += num; break: the promise resolves
acquireAsync_upd(t, s) ==
    /\ At(t, s, "acquireAsync", "upd")
    /\ acquiredPermits' = [acquiredPermits EXCEPT ![t] = @ + call[t][s].num]
    /\ call' = Set(t, s, NoCall)
    /\ running' = [running EXCEPT ![t] = 0]
    /\ Ends(t, "returned")
    /\ UNCHANGED <<cell, budget>>

\* ------------------------------------------------------------------ specification
\* One step of a call in progress.
Step(t, s) ==
    \/ acquire_load(t, s)
    \/ acquire_wait(t, s)
    \/ acquire_cas(t, s)
    \/ acquire_upd(t, s)
    \/ release_load(t, s)
    \/ release_cas(t, s)
    \/ release_upd(t, s)
    \/ release_notify(t, s)
    \/ acquireAsync_load(t, s)
    \/ acquireAsync_wait(t, s)
    \/ acquireAsync_resume(t, s)
    \/ acquireAsync_cas(t, s)
    \/ acquireAsync_upd(t, s)

\* A thread calls one of the three methods with an argument of N.
Calls(N) ==
    \E t \in Threads : \E num \in N :
        \/ acquire(t, num)
        \/ release(t, num)
        \/ acquireAsync(t, num)

Steps == \E t \in Threads : \E s \in Slots : Step(t, s)

\* Callers that pass any integer.
Next == Calls(AnyNum) \/ Steps

Spec == Init /\ [][Next]_vars

\* Callers that keep to num >= 1.
NextPos == Calls(PosNum) \/ Steps

SpecPos == Init /\ [][NextPos]_vars

\* Every call in progress takes its next step in the end: a thread that is not
\* blocked runs on, and a queued continuation runs once its thread is free.
\* The callers may stop calling at any time.
Fairness == \A t \in Threads : \A s \in Slots : WF_vars(Step(t, s))

InitLive == Start(Capacity, MaxCalls + 1)

SpecLive == InitLive /\ [][NextPos]_vars /\ Fairness

\* No call of thread t is in progress.
ThreadIdle(t) == \A s \in Slots : call[t][s].pc = "idle"

\* The threads of the Quickstart: the main thread does acquireAsync(1), the
\* worker acquire(1), each uses the resource and then does release(1).
MutexCalls ==
    \E t \in Threads :
        /\ ThreadIdle(t)
        /\ \/ acquiredPermits[t] = 0 /\ acquire(t, 1)
           \/ acquiredPermits[t] = 0 /\ acquireAsync(t, 1)
           \/ acquiredPermits[t] = 1 /\ release(t, 1)

NextMutex == MutexCalls \/ Steps

InitMutex == Start(MutexCapacity, MaxCalls + 1)

SpecMutex == InitMutex /\ [][NextMutex]_vars

\* Threads that take all they need in one call: a thread that holds nothing
\* does acquire(n) or acquireAsync(n) with some n from 1 to Capacity, uses the
\* resource, and then gives the n permits back with release(n).
AllAtOnceCalls ==
    \E t \in Threads :
        /\ ThreadIdle(t)
        /\ \/ acquiredPermits[t] = 0 /\ \E n \in 1..Capacity : acquire(t, n)
           \/ acquiredPermits[t] = 0 /\ \E n \in 1..Capacity : acquireAsync(t, n)
           \/ acquiredPermits[t] > 0 /\ release(t, acquiredPermits[t])

NextAllAtOnce == AllAtOnceCalls \/ Steps

SpecAllAtOnce == InitLive /\ [][NextAllAtOnce]_vars

\* The threads of a page, as in the Quickstart: the main thread, which must not
\* block, takes permits with acquireAsync, a worker with acquire, and both give
\* back permits they hold with release; the amounts are any from 1 to MaxNum.
MainThread == 1

PageCalls ==
    \E t \in Threads : \E num \in PosNum :
        \/ t = MainThread /\ acquireAsync(t, num)
        \/ t # MainThread /\ acquire(t, num)
        \/ num <= acquiredPermits[t] /\ release(t, num)

NextPage == PageCalls \/ Steps

SpecPage == InitLive /\ [][NextPage]_vars

\* ------------------------------------------------------------------ constructor
\* The checks in the other order: the length first, then the buffer.
constructor_length_first(t, shared, length) ==
    /\ budget > 0
    /\ running[t] = 0
    /\ ThreadIdle(t)
    /\ budget' = budget - 1
    /\ IF length # 1
       THEN Ends(t, "InvalidLength") /\ UNCHANGED acquiredPermits
       ELSE IF ~shared
            THEN Ends(t, "InvalidBackingStore") /\ UNCHANGED acquiredPermits
            ELSE /\ acquiredPermits' = [acquiredPermits EXCEPT ![t] = 0]
                 /\ Ends(t, "constructed")
    /\ UNCHANGED <<cell, call, running>>

\* new Semaphore(int32Array), as the worker does for each message: the thread
\* goes on with the new instance.  shared: int32Array.buffer is a
\* SharedArrayBuffer; length: int32Array.length.
constructor(t, shared, length) ==
    /\ budget > 0
    /\ running[t] = 0
    /\ ThreadIdle(t)
    /\ budget' = budget - 1
    /\ IF ~shared
       THEN Ends(t, "InvalidBackingStore") /\ UNCHANGED acquiredPermits
       ELSE IF length # 1
            THEN Ends(t, "InvalidLength") /\ UNCHANGED acquiredPermits
            ELSE /\ acquiredPermits' = [acquiredPermits EXCEPT ![t] = 0]
                 /\ Ends(t, "constructed")
    /\ UNCHANGED <<cell, call, running>>

\* A thread wraps a handle it was sent.
Constructs ==
    \E t \in Threads : \E shared \in BOOLEAN : \E length \in 0..MaxLength :
        constructor(t, shared, length)

NextNew == Constructs \/ Calls(PosNum) \/ Steps

SpecNew == Init /\ [][NextNew]_vars

\* ------------------------------------------------------------------ fromCapacity
\* new DataView(sab).setInt32(0, permits, true): the four bytes of permits in
\* two's complement, the lowest first.
setInt32(permits) == [i \in 0..3 |-> (permits \div (256 ^ i)) % 256]

\* new Int32Array(sab)[0]: the four bytes read back, the lowest first.
Int32Array(bytes) ==
    bytes[0] + 256 * bytes[1] + 65536 * bytes[2]
        + 16777216 * (IF bytes[3] < 128 THEN bytes[3] ELSE bytes[3] - 256)

\* Semaphore.fromCapacity(permits): the value of the cell of the new semaphore.
fromCapacity(permits) == Int32Array(setInt32(permits))

\* The semaphore is made with any capacity up to Capacity, negative ones included.
InitCap == \E permits \in (0 - NegNum)..Capacity : Start(fromCapacity(permits), MaxCalls)

SpecCap == InitCap /\ [][NextPos]_vars

\* ------------------------------------------------------------------ properties
\* The sum of acquiredPermits over the instances of the threads 1..n.
RECURSIVE SumAcquired(_)
SumAcquired(n) == IF n = 0 THEN 0 ELSE acquiredPermits[n] + SumAcquired(n - 1)

\* The calls in progress, as pairs of thread and slot.
InProgress == {ts \in Threads \X Slots : call[ts[1]][ts[2]].pc # "idle"}

\* The calls in progress of acquire and acquireAsync.
Acquiring == {ts \in InProgress : call[ts[1]][ts[2]].op \in {"acquire", "acquireAsync"}}

\* No call is between its successful compareExchange and the update of
\* _acquiredPermits.
Quiescent == \A ts \in InProgress : call[ts[1]][ts[2]].pc # "upd"

\* C1. Conservation: with callers that keep to num >= 1, whenever no call is
\* between its successful compare-and-swap and its update of acquiredPermits,
\* the cell holds the initial capacity minus the sum of acquiredPermits over all
\* instances; so once everything acquired is released the cell holds the capacity.
Conservation == Quiescent => cell = Capacity - SumAcquired(NThreads)

\* C1 witness: a thread has acquired and released, nothing is held or in
\* progress any more, and the cell is back at the capacity.
ConservationWitness ==
    /\ InProgress = {}
    /\ \A t \in Threads : acquiredPermits[t] = 0
    /\ \E t \in Threads : result[t] = "returned"
    /\ cell = Capacity

\* C2. No over-acquisition: with callers that keep to num >= 1 the cell stays
\* within 0..Capacity, and a call of acquire or acquireAsync reaches its
\* compare-and-swap only with an observed value of at least num.
NoOverAcquisition ==
    /\ cell \in 0..Capacity
    /\ \A ts \in Acquiring :
          call[ts[1]][ts[2]].pc = "cas" => call[ts[1]][ts[2]].available >= call[ts[1]][ts[2]].num

\* C2 witness: the cell is used up and a further acquirer is kept waiting.
NoOverAcquisitionWitness ==
    /\ cell = 0
    /\ \E ts \in Acquiring : call[ts[1]][ts[2]].pc \in {"blocked", "suspended"}

\* The threads between a returned acquire(1) or acquireAsync(1) and the call of
\* release(1).
InCriticalSection == {t \in Threads : acquiredPermits[t] >= 1 /\ ThreadIdle(t)}

\* C3. Mutual exclusion: when every thread follows acquire(1) or
\* acquireAsync(1), use, release(1) on a cell of capacity 1, at most one thread
\* is between its returned acquire and its release, and whenever no call is in
\* progress the cell holds the capacity minus the number of such threads (in the
\* scenario: availablePermits = 0, A's acquiredPermits = 0, B's = 1).
MutualExclusion ==
    /\ Cardinality(InCriticalSection) <= MutexCapacity
    /\ InProgress = {} => cell = MutexCapacity - Cardinality(InCriticalSection)

\* C3 witness: the end of the scenario: A (thread 1) has acquired and released,
\* B (thread 2) has acquired and holds the permit.
MutualExclusionWitness ==
    /\ InProgress = {}
    /\ result[1] = "returned" /\ acquiredPermits[1] = 0
    /\ result[2] = "returned" /\ acquiredPermits[2] = 1
    /\ cell = 0

\* The calls in progress of release.
Releasing == {ts \in InProgress : call[ts[1]][ts[2]].op = "release"}

\* C5. Blocking correctness: with callers that keep to num >= 1, a call of
\* acquire or acquireAsync gets past its compare-and-swap only in a step that
\* finds the cell at a value of at least num; a call that has read a value below
\* num, waits or has been woken goes back to reading the cell and never on to
\* the compare-and-swap; and the cell is only ever raised by the successful
\* compare-and-swap of a release.
BlockingCorrectness ==
    [][/\ \A ts \in Acquiring :
             LET c == call[ts[1]][ts[2]]
                 d == call'[ts[1]][ts[2]]
             IN /\ (c.pc # "upd" /\ d.pc = "upd") => (c.pc = "cas" /\ cell >= c.num)
                /\ (c.pc = "load" /\ cell < c.num) => d.pc \in {"load", "wait"}
                /\ c.pc \in {"wait", "blocked", "suspended", "ready"}
                      => d.pc \in {"wait", "blocked", "suspended", "ready", "load"}
       /\ cell' > cell =>
             \E ts \in Releasing :
                 call[ts[1]][ts[2]].pc = "cas" /\ call'[ts[1]][ts[2]].pc = "upd"
      ]_vars

\* C5 witness: a call waits for more permits than the cell holds, although the
\* cell is not empty.
BlockingCorrectnessWitness ==
    \E ts \in Acquiring :
        /\ call[ts[1]][ts[2]].pc \in {"blocked", "suspended"}
        /\ 0 < cell /\ cell < call[ts[1]][ts[2]].num

\* C6. acquire(num) and acquireAsync(num) with num <= 0 fail with
\* InvalidArgument and change nothing: not the cell, not acquiredPermits, and no
\* call in progress is entered or woken.
InvalidArgumentRejected ==
    [][\A t \in Threads : \A num \in AnyNum :
          (num <= 0 /\ (acquire(t, num) \/ acquireAsync(t, num)))
              => (result'[t] = "InvalidArgument" /\ UNCHANGED <<cell, acquiredPermits, call, running>>)
      ]_vars

\* C7. acquiredPermits of every instance is never negative, whatever integers
\* the calls are given.
AcquiredPermitsNonNegative == \A t \in Threads : acquiredPermits[t] >= 0

\* C8. release(n) with n greater than the instance's acquiredPermits fails
\* with OverRelease and leaves acquiredPermits and the cell as they are; no
\* call in progress is entered or woken; this whatever the other instances hold.
OverReleaseRejected ==
    [][\A t \in Threads : \A num \in AnyNum :
          (num > acquiredPermits[t] /\ release(t, num))
              => (result'[t] = "OverRelease" /\ UNCHANGED <<cell, acquiredPermits, call, running>>)
      ]_vars

\* C8 witness: a release has failed with OverRelease in a thread that holds
\* nothing while another instance holds permits of the same cell.
OverReleaseRejectedWitness ==
    \E t \in Threads :
        /\ result[t] = "OverRelease"
        /\ acquiredPermits[t] = 0
        /\ \E u \in Threads \ {t} : acquiredPermits[u] >= 1

\* C9. Local bookkeeping: the call that gets past its compare-and-swap has
\* changed the cell by exactly num (down for acquire and acquireAsync, up for
\* release) and nothing else; the step after it changes acquiredPermits of the
\* calling instance by exactly num (up for acquire and acquireAsync, down for
\* release) and leaves the cell and every other instance's acquiredPermits alone.
BookkeepingExact ==
    [][\A ts \in InProgress :
          LET t == ts[1]
              c == call[t][ts[2]]
              d == call'[t][ts[2]]
              sign == IF c.op = "release" THEN 0 - 1 ELSE 1
          IN /\ (c.pc # "upd" /\ d.pc = "upd")
                   => (cell' = cell - sign * c.num /\ acquiredPermits' = acquiredPermits)
             /\ (c.pc = "upd" /\ d.pc # "upd")
                   => /\ acquiredPermits'[t] = acquiredPermits[t] + sign * c.num
                      /\ \A u \in Threads \ {t} : acquiredPermits'[u] = acquiredPermits[u]
                      /\ cell' = cell
      ]_vars

\* C9 witness: two permits taken by one call and given back by one call.
BookkeepingExactWitness ==
    \E ts \in Releasing :
        /\ call[ts[1]][ts[2]].pc = "notify"
        /\ call[ts[1]][ts[2]].num = 2
        /\ acquiredPermits[ts[1]] = 0
        /\ cell = Capacity

\* C10. acquireAsync(num) has the outcome of acquire(num) for num >= 1: a call
\* of either gets past its compare-and-swap only in a step that replaces a cell
\* value of at least num by that value minus num, and it ends only in the step
\* after that, which adds num to the instance's acquiredPermits, leaves the
\* cell alone and returns (resolves the promise).
SameOutcome ==
    [][\A ts \in Acquiring :
          LET t == ts[1]
              c == call[t][ts[2]]
              d == call'[t][ts[2]]
          IN c.num >= 1 =>
                /\ (c.pc # "upd" /\ d.pc = "upd")
                      => (c.pc = "cas" /\ cell = c.available /\ cell >= c.num /\ cell' = cell - c.num)
                /\ d.pc = "idle"
                      => /\ c.pc = "upd"
                         /\ acquiredPermits'[t] = acquiredPermits[t] + c.num
                         /\ cell' = cell
                         /\ result'[t] = "returned"
      ]_vars

\* C10 witness: an acquire(n) in one thread and an acquireAsync(n) in another
\* are both past their compare-and-swap with the same n.
SameOutcomeWitness ==
    \E ts \in Acquiring : \E us \in Acquiring :
        /\ call[ts[1]][ts[2]].op = "acquire" /\ call[ts[1]][ts[2]].pc = "upd"
        /\ call[us[1]][us[2]].op = "acquireAsync" /\ call[us[1]][us[2]].pc = "upd"
        /\ call[ts[1]][ts[2]].num = call[us[1]][us[2]].num
        /\ cell = Capacity - 2 * call[ts[1]][ts[2]].num

\* The call in slot ts is an acquire(n) or acquireAsync(n) in progress.
Inside(ts, n) ==
    /\ ts \in Acquiring
    /\ call[ts[1]][ts[2]].num = n

\* Permits that were there for the call in slot ts have been taken by another call.
Taken(ts, n) == cell < n /\ call[ts[1]][ts[2]].pc # "upd"

\* The thread of the call in slot ts is blocked in Atomics.wait of another call.
BlockedElsewhere(ts) ==
    \E r \in Slots \ {ts[2]} : call[ts[1]][r].pc = "blocked"

\* C4 as stated. No lost wake-up: a call of acquire(n) or acquireAsync(n) in
\* progress while the cell holds at least n returns in the end, unless another
\* call takes the permits.
NoLostWakeupAlways ==
    \A ts \in Threads \X Slots : \A n \in PosNum :
        (Inside(ts, n) /\ cell >= n) ~> (~Inside(ts, n) \/ Taken(ts, n))

\* C4 as amended. No lost wake-up: a call of acquire(n) or acquireAsync(n) in
\* progress while the cell holds at least n returns in the end, unless another
\* call takes the permits or the calling thread has blocked in the Atomics.wait
\* of another acquire.
NoLostWakeup ==
    \A ts \in Threads \X Slots : \A n \in PosNum :
        (Inside(ts, n) /\ cell >= n) ~> (~Inside(ts, n) \/ Taken(ts, n) \/ BlockedElsewhere(ts))

\* C4 witness: a release has raised the cell between the read of an acquirer
\* and its wait: the acquirer is about to wait on a value the cell no longer holds.
NoLostWakeupWitness ==
    \E ts \in Acquiring :
        /\ call[ts[1]][ts[2]].pc = "wait"
        /\ call[ts[1]][ts[2]].available < call[ts[1]][ts[2]].num
        /\ cell >= call[ts[1]][ts[2]].num
        /\ \E u \in Threads \ {ts[1]} : result[u] = "returned" /\ ThreadIdle(u)

\* C11. Construction validation: new Semaphore over a handle whose buffer is
\* not shared fails with InvalidBackingStore, over a shared handle of a length
\* other than 1 with InvalidLength, and both leave everything as it is; a
\* successful construction gives an instance with acquiredPermits = 0; no
\* construction changes the cell, a call in progress or another instance.
ConstructionValidated ==
    [][\A t \in Threads : \A shared \in BOOLEAN : \A length \in 0..MaxLength :
          constructor(t, shared, length) =>
              /\ cell' = cell /\ call' = call
              /\ \A u \in Threads \ {t} : acquiredPermits'[u] = acquiredPermits[u]
              /\ ~shared => (result'[t] = "InvalidBackingStore" /\ acquiredPermits' = acquiredPermits)
              /\ (shared /\ length # 1) => (result'[t] = "InvalidLength" /\ acquiredPermits' = acquiredPermits)
              /\ (shared /\ length = 1) => (result'[t] = "constructed" /\ acquiredPermits'[t] = 0)
      ]_vars

\* C11 witness: a further instance has been made over the cell while another
\* instance holds permits, and the cell shows just those permits missing.
ConstructionValidatedWitness ==
    \E t \in Threads :
        /\ result[t] = "constructed"
        /\ acquiredPermits[t] = 0
        /\ InProgress = {}
        /\ \E u \in Threads \ {t} : acquiredPermits[u] >= 1 /\ cell = Capacity - acquiredPermits[u]

\* C12. fromCapacity(permits) gives a semaphore whose cell holds permits and
\* whose acquiredPermits is 0, and never one whose cell starts negative: a
\* negative permits is rejected or clamped.
CapacityNeverNegative ==
    budget = MaxCalls =>
        /\ cell \in 0..Capacity
        /\ \A t \in Threads : acquiredPermits[t] = 0

\* The calls waiting on the cell: blocked in Atomics.wait or suspended on the
\* promise of Atomics.waitAsync.
Waiting == {ts \in Acquiring : call[ts[1]][ts[2]].pc \in {"blocked", "suspended"}}

\* C13. Release ordering and broadcast: a release comes to its notify only from
\* its update of _acquiredPermits, and to that only from a compareExchange that
\* found the value read and added num to the cell; a failed compareExchange
\* goes back to the load; a waiting call is woken only by the notify step of a
\* release, and after that step no call at all is left waiting, whatever the
\* amounts asked for.
NotifyAfterSwapWakesAll ==
    [][call' # call =>
          LET notifies == \E t \in Threads : \E s \in Slots :
                              /\ call[t][s].op = "release"
                              /\ call[t][s].pc = "notify"
                              /\ call'[t][s].pc = "idle"
          IN  \A t \in Threads : \A s \in Slots :
                  LET c == call[t][s]
                      d == call'[t][s]
                  IN  /\ notifies => d.pc \notin {"blocked", "suspended"}
                      /\ (c.pc \in {"blocked", "suspended"} /\ d # c) =>
                             (notifies /\ d = Woken(c))
                      /\ (c.op = "release" /\ d # c) =>
                             /\ d.pc = "notify" => c.pc = "upd"
                             /\ d.pc = "upd" =>
                                    (c.pc = "cas" /\ cell = c.available /\ cell' = cell + c.num)
                             /\ (c.pc = "cas" /\ cell # c.available) =>
                                    (d.pc = "load" /\ cell' = cell)
      ]_vars

\* C13 witness: a release has added to the cell and stands at its notify while
\* two calls wait, one asking for no more than the cell now holds, the other
\* for more.
NotifyAfterSwapWakesAllWitness ==
    \E r \in Releasing : \E small \in Waiting : \E large \in Waiting :
        /\ call[r[1]][r[2]].pc = "notify"
        /\ call[small[1]][small[2]].num <= cell
        /\ call[large[1]][large[2]].num > cell

\* C14. A call comes to be blocked (acquire) or suspended (acquireAsync) only
\* by its wait step, taken while the cell still holds the value the call read
\* last, a value below num, and that step leaves the cell alone; a wait step
\* that finds the cell changed parks nothing: acquire goes back to its load,
\* acquireAsync is queued to go back to its load; and a thread blocked in
\* Atomics.wait has no call between a compareExchange and the update of
\* _acquiredPermits.
BlockedOnlyAtWait ==
    [][/\ call' # call =>
             \A t \in Threads : \A s \in Slots :
                 LET c == call[t][s]
                     d == call'[t][s]
                 IN  /\ (d.pc \in {"blocked", "suspended"} /\ d # c) =>
                            /\ c.pc = "wait"
                            /\ cell = c.available /\ c.available < c.num
                            /\ cell' = cell
                            /\ d.pc = (IF c.op = "acquire" THEN "blocked" ELSE "suspended")
                     /\ (c.pc = "wait" /\ d # c /\ cell # c.available) =>
                            d.pc = (IF c.op = "acquire" THEN "load" ELSE "ready")
                     /\ (c.pc = "ready" /\ d # c) => d.pc = "load"
       /\ \A t \in Threads :
             (\E s \in Slots : call'[t][s].pc = "blocked") =>
                 \A r \in Slots : call'[t][r].pc \notin {"cas", "upd", "notify"}
      ]_vars

\* C14 witness: an acquireAsync found at its await that the cell was no longer
\* what it had read (another call took the last permit in between) and is
\* queued to read again; no release has been called, so no notify woke it.
BlockedOnlyAtWaitWitness ==
    /\ budget = 0
    /\ cell = 0
    /\ Releasing = {}
    /\ SumAcquired(NThreads) = Capacity
    /\ \E ts \in Acquiring : call[ts[1]][ts[2]].pc = "ready"

\* What a successful compareExchange of the call c adds to the cell.
Delta(c) == IF c.op = "release" THEN c.num ELSE 0 - c.num

\* C15. No partial acquisition: the cell changes only in the step of one call
\* from its compareExchange to its update of _acquiredPermits, taken while the
\* cell holds the value read, and by exactly -num (acquire, acquireAsync) or
\* +num (release); a call that has swapped goes on to its end and never swaps
\* again; acquiredPermits changes only in the update step of a call that has
\* swapped, by the same amount, and only for the calling instance; every other
\* step (a load, a failed compareExchange, a wait, a wake-up, a retry) leaves
\* the cell and every acquiredPermits as they are.
NoPartialAcquisition ==
    [][LET swaps(t, s) == call[t][s].pc = "cas" /\ call'[t][s].pc = "upd"
           updates(t, s) == call[t][s].pc = "upd" /\ call'[t][s].pc \in {"idle", "notify"}
       IN  /\ cell' # cell =>
                 \E t \in Threads : \E s \in Slots :
                     /\ swaps(t, s)
                     /\ cell = call[t][s].available
                     /\ cell' = cell + Delta(call[t][s])
                     /\ \A u \in Threads : \A r \in Slots :
                            <<u, r>> # <<t, s>> => call'[u][r] = call[u][r]
           /\ \A t \in Threads : \A s \in Slots :
                 /\ swaps(t, s) => cell' = cell + Delta(call[t][s])
                 /\ (call[t][s].pc = "upd" /\ call'[t][s] # call[t][s]) => updates(t, s)
                 /\ updates(t, s) =>
                        acquiredPermits' =
                            [acquiredPermits EXCEPT ![t] = @ - Delta(call[t][s])]
           /\ acquiredPermits' # acquiredPermits =>
                 (cell' = cell /\ \E t \in Threads : \E s \in Slots : updates(t, s))
      ]_vars

\* C15 witness: a release has swapped the cell up by its num and not yet
\* updated _acquiredPermits, while a blocked acquire, which asked for more than
\* there was, has taken nothing: the cell is short of Capacity by what is held
\* less what was given back.
NoPartialAcquisitionWitness ==
    \E r \in Releasing : \E w \in Waiting :
        /\ call[r[1]][r[2]].pc = "upd"
        /\ call[w[1]][w[2]].pc = "blocked"
        /\ cell = Capacity - SumAcquired(NThreads) + call[r[1]][r[2]].num

\* The permits of the calls that have swapped the cell and not yet updated
\* _acquiredPermits: taken ones count up, given back ones down.
RECURSIVE SumSwapped(_)
SumSwapped(S) ==
    IF S = {} THEN 0
    ELSE LET ts == CHOOSE x \in S : TRUE
         IN  (IF call[ts[1]][ts[2]].pc = "upd" THEN 0 - Delta(call[ts[1]][ts[2]]) ELSE 0)
                 + SumSwapped(S \ {ts})

\* C16. Calls of acquireAsync pending together on one instance do not disturb
\* each other.  In every step at most one call of a thread moves by itself, and
\* the others of that thread stay as they are or are woken by a notify; the
\* value a call holds is the one the call itself read from the cell in its load;
\* a call of acquireAsync ends only from its own update after its own
\* compareExchange found that value in the cell, and then acquiredPermits grows
\* by its num; and at all times the cell is short of Capacity by exactly what
\* the instances hold plus what the calls between swap and update have moved,
\* so once all calls have ended, by the sum of their amounts.
PendingIndependent ==
    /\ [](cell = Capacity - SumAcquired(NThreads) - SumSwapped(InProgress))
    /\ [][call' # call =>
             \A t \in Threads : \A s \in Slots :
                 LET c == call[t][s]
                     d == call'[t][s]
                 IN  (d # c /\ d # Woken(c)) =>
                         /\ \A r \in Slots \ {s} :
                                call'[t][r] = call[t][r] \/ call'[t][r] = Woken(call[t][r])
                         /\ d.available # 0 => (c.pc = "load" /\ d.available = cell)
                         /\ c.op = "acquireAsync" =>
                                /\ d.pc = "upd" =>
                                       (c.pc = "cas" /\ cell = c.available /\ cell' = cell - c.num)
                                /\ d.pc = "idle" =>
                                       /\ c.pc = "upd"
                                       /\ acquiredPermits'[t] = acquiredPermits[t] + c.num
                                       /\ cell' = cell
        ]_vars

\* C16 witness: on the main thread one acquireAsync has swapped the cell while
\* another acquireAsync of the same instance is still pending, and a worker has
\* released in between.
PendingIndependentWitness ==
    \E s \in Slots : \E r \in Slots \ {s} : \E u \in Threads \ {MainThread} :
        /\ call[MainThread][s].op = "acquireAsync" /\ call[MainThread][s].pc = "upd"
        /\ call[MainThread][r].op = "acquireAsync"
        /\ call[MainThread][r].pc \in {"suspended", "ready"}
        /\ result[u] = "returned" /\ ThreadIdle(u) /\ acquiredPermits[u] < Capacity

\* C17. release only ever returns permits: no step of a call of release, for
\* any integer num that gets past the OverRelease check, takes the cell down
\* or the instance's acquiredPermits up.
ReleaseOnlyReturns ==
    [][\A t \in Threads : \A s \in Slots :
          (call[t][s].op = "release" /\ call'[t][s] # call[t][s]) =>
              (cell' >= cell /\ acquiredPermits'[t] <= acquiredPermits[t])
      ]_vars

\* Instance A (of another thread) holds at least num permits while the
\* instance of thread t holds fewer than num.
HeldByOther(t, num) ==
    /\ acquiredPermits[t] < num
    /\ \E a \in Threads \ {t} : acquiredPermits[a] >= num

\* C18 as stated. An instance may release permits another instance acquired:
\* with A holding num permits, release(num) on an instance B that holds fewer
\* raises no error and goes on to return the permits to the cell.
ReleaseByOther ==
    [][\A t \in Threads : \A num \in PosNum :
          (HeldByOther(t, num) /\ release(t, num)) =>
              (result'[t] # "OverRelease" /\ call'[t][FreeSlot(t)].op = "release")
      ]_vars

\* C18 amended. An instance gives back only permits it acquired itself: with A
\* holding num permits, release(num) on an instance B that holds fewer fails
\* with OverRelease and changes nothing: the cell stays short of those permits,
\* A still holds them and no call is entered or woken.
ReleaseOnlyOwn ==
    [][\A t \in Threads : \A num \in PosNum :
          (HeldByOther(t, num) /\ release(t, num)) =>
              /\ result'[t] = "OverRelease"
              /\ cell' = cell /\ acquiredPermits' = acquiredPermits
              /\ call' = call /\ running' = running
      ]_vars

\* C18 witness: B's release of permits that only A holds has failed; A still
\* holds them and the cell is still short of them.
ReleaseOnlyOwnWitness ==
    \E t \in Threads : \E a \in Threads \ {t} :
        /\ result[t] = "OverRelease"
        /\ acquiredPermits[t] = 0
        /\ acquiredPermits[a] >= 1
        /\ cell = Capacity - acquiredPermits[a]
        /\ InProgress = {}

\* C19. Lock-freedom of the retry loops.  A call comes to its compareExchange
\* with the value the cell holds at that moment; while it stands there the
\* cell changes only by the successful compareExchange of another call; its
\* own compareExchange fails only if the cell no longer holds that value, and
\* succeeds otherwise; so a failure means another call got through in between.
\* release has no wait step: it is never waiting, blocked, suspended or queued;
\* and with calls that take their steps and callers that stop calling, every
\* release comes to its end.
LockFree ==
    /\ [][\A t \in Threads : \A s \in Slots :
             LET c == call[t][s]
                 d == call'[t][s]
             IN  /\ (c.pc = "load" /\ d.pc = "cas") => d.available = cell'
                 /\ (c.pc = "cas" /\ d = c /\ cell' # cell) =>
                        \E u \in Threads : \E r \in Slots :
                            /\ <<u, r>> # <<t, s>>
                            /\ call[u][r].pc = "cas" /\ call'[u][r].pc = "upd"
                 /\ (c.pc = "cas" /\ d # c) =>
                        d.pc = (IF cell = c.available THEN "upd" ELSE "load")
        ]_vars
    /\ [](\A ts \in Releasing :
             call[ts[1]][ts[2]].pc \in {"load", "cas", "upd", "notify"})
    /\ \A t \in Threads : \A s \in Slots :
           (call[t][s].op = "release") ~> (call[t][s].op # "release")

\* C19 witness: a release stands at its compareExchange with a value the cell
\* no longer holds, and the call that changed the cell in between stands just
\* after its own successful compareExchange.
LockFreeWitness ==
    \E r \in Releasing : \E a \in Acquiring :
        /\ call[r[1]][r[2]].pc = "cas"
        /\ call[r[1]][r[2]].available # cell
        /\ call[a[1]][a[2]].pc = "upd"
        /\ cell = call[r[1]][r[2]].available - call[a[1]][a[2]].num

\* Thread t has a call waiting on the cell.
ThreadWaits(t) == \E s \in Slots : <<t, s>> \in Waiting

\* Thread t holds permits, or has swapped them out of the cell and is about to
\* count them, and is not waiting: it is using them or giving them back.
HoldsAndRuns(t) ==
    /\ ~ThreadWaits(t)
    /\ \/ acquiredPermits[t] > 0
       \/ \E s \in Slots : <<t, s>> \in Acquiring /\ call[t][s].pc = "upd"

\* C20. Deadlock freedom of all-at-once acquisition: with threads that take
\* n permits, 1 <= n <= Capacity, in one call and give them back later, the
\* threads are never all waiting; and whenever a call waits, either the cell
\* is below its num and a thread other than the waiter's holds permits and is
\* not itself waiting, or the cell has reached its num and the release that
\* raised it is on its way to the notify that wakes the waiter.
AllAtOnceNoDeadlock ==
    /\ \E t \in Threads : ~ThreadWaits(t)
    /\ \A w \in Waiting :
           IF cell < call[w[1]][w[2]].num
           THEN \E u \in Threads \ {w[1]} : HoldsAndRuns(u)
           ELSE \E r \in Releasing : call[r[1]][r[2]].pc \in {"upd", "notify"}

\* C20 witness: a thread waits for more permits than the cell has, though the
\* cell is not empty, while the thread holding the rest has returned from its
\* acquisition and is free to call release.
AllAtOnceNoDeadlockWitness ==
    \E w \in Waiting : \E u \in Threads \ {w[1]} :
        /\ 0 < cell /\ cell < call[w[1]][w[2]].num
        /\ acquiredPermits[u] = Capacity - cell
        /\ ThreadIdle(u) /\ result[u] = "returned"

====
